---- MODULE Spec2Model ----
(***************************************************************************)
(* Model of app.py: a Streamlit chat page that forwards questions to a     *)
(* hosted inference endpoint.  The state is the session's chat history,    *)
(* the locals of the running script and the outcome of the blocking POST.  *)
(* Python values (JSON data, strings, None) are tagged records; Python     *)
(* strings are TLA+ strings, so formatting is real concatenation.          *)
(***************************************************************************)
EXTENDS Integers, Sequences, FiniteSets, TLC

VARIABLES secrets, requestsJsonExc, pc, diagnostics, history, user_input,
          prompt, posts, outcome, handler, raised, bot_response, event

vars == <<secrets, requestsJsonExc, pc, diagnostics, history, user_input,
          prompt, posts, outcome, handler, raised, bot_response, event>>

\* Bound: number of POSTs (question submissions) in one session.
MaxPosts == 2

----------------------------------------------------------------------------
\* Python values.

PyStr(s) == [type |-> "str", s |-> s]
PyInt(n) == [type |-> "int", n |-> n]
PyNone == [type |-> "null"]
PyDict(f) == [type |-> "dict", f |-> f]
PyList(items) == [type |-> "list", items |-> items]

\* str(n) of a non-negative int.
RECURSIVE IntToStr(_)
IntToStr(n) ==
  IF n < 10 THEN SubSeq("0123456789", n + 1, n + 1)
  ELSE IntToStr(n \div 10) \o SubSeq("0123456789", (n % 10) + 1, (n % 10) + 1)

\* format(v) as an f-string field renders it: str(v).  Only strings, ints and
\* None reach a format field here.
Format(v) ==
  CASE v.type = "str" -> v.s
    [] v.type = "int" -> IntToStr(v.n)
    [] v.type = "null" -> "None"

\* The name type(v).__name__ that Python puts in a TypeError message.
TypeName(v) ==
  CASE v.type = "str" -> "str"
    [] v.type = "int" -> "int"
    [] v.type = "null" -> "NoneType"
    [] v.type = "dict" -> "dict"
    [] OTHER -> "list"

\* sub in s, for two Python strings.
Contains(s, sub) ==
  \E i \in 1..(Len(s) - Len(sub) + 1) : SubSeq(s, i, i + Len(sub) - 1) = sub

\* "\n".join(lines)
RECURSIVE Join(_)
Join(lines) ==
  IF lines = <<>> THEN ""
  ELSE IF Len(lines) = 1 THEN lines[1]
  ELSE lines[1] \o "\n" \o Join(Tail(lines))

----------------------------------------------------------------------------
\* Constants of the program.

API_URL == "https://api-inference.huggingface.co/models/GonzaloValdenebro/MedicalQuestionAnswering"

PREAMBLE ==
  "You are an AI Medical Assistant. Your goal is to provide clear, safe, and helpful medical information "
  \o "based on the user's questions and the provided chat history. Do not give medical advice that requires a diagnosis "
  \o "or treatment, and always advise consulting a healthcare professional for serious conditions. "
  \o "Be concise and focus on common knowledge. If you cannot provide a safe or relevant answer, politely decline.\n\n"

QuestionLabel == "Current User Question: "
HistoryLabel == "\n\nChat History:\n"
ResponseLabel == "\n\nAssistant's Response:"

FallbackMsg == "I'm not sure, could you please rephrase or ask a different question?"
ConnectionMsg == "A connection error occurred. The AI service might be unavailable. Please check your internet connection or try again later."
TimeoutMsg == "The AI model took too long to respond. Please try again or simplify your question."
RequestMsg == "An unexpected error occurred while communicating with the AI. Please try again."
DecodeMsg == "The AI model returned an unreadable response. Please try again."
ServiceMsg(err) == "An error occurred with the AI model: " \o Format(err) \o ". Please try again."
HttpMsg(errText, text) == "An HTTP error occurred: " \o errText \o ". Details: " \o text \o ". Please try again later."
InternalMsg(errText) == "An internal error occurred: " \o errText \o ". Please try again."

----------------------------------------------------------------------------
\* Prompt construction (lines 22-42).

ContextLine(turn) ==
  IF turn[1] = "user" THEN "User: " \o Format(turn[2])
  ELSE "Assistant: " \o Format(turn[2])

ContextLines(h) == [i \in 1..Len(h) |-> ContextLine(h[i])]

FullContext(h) == Join(ContextLines(h))

\* Mutant: the chat history is placed before the current question.
BuildPrompt_HistoryFirst(question, h) ==
  PREAMBLE \o HistoryLabel \o FullContext(h) \o "\n\n" \o QuestionLabel \o question \o ResponseLabel

BuildPrompt(question, h) ==
  PREAMBLE \o QuestionLabel \o question \o HistoryLabel \o FullContext(h) \o ResponseLabel

----------------------------------------------------------------------------
\* Outcomes of requests.post(...) followed by response.json() (lines 51-54).

\* The classes an exception is an instance of (its class and its bases).
Bases(exc) ==
  CASE exc = "ConnectTimeout" ->
         {"ConnectTimeout", "ConnectionError", "Timeout", "RequestException", "Exception"}
    [] exc = "ReadTimeout" -> {"ReadTimeout", "Timeout", "RequestException", "Exception"}
    [] exc = "ConnectionError" -> {"ConnectionError", "RequestException", "Exception"}
    [] exc = "SSLError" -> {"SSLError", "ConnectionError", "RequestException", "Exception"}
    [] exc = "TooManyRedirects" -> {"TooManyRedirects", "RequestException", "Exception"}
    [] exc = "HTTPError" -> {"HTTPError", "RequestException", "Exception"}
    [] exc = "requests.JSONDecodeError" ->
         {"requests.JSONDecodeError", "InvalidJSONError", "RequestException",
          "json.JSONDecodeError", "ValueError", "Exception"}
    [] exc = "json.JSONDecodeError" -> {"json.JSONDecodeError", "ValueError", "Exception"}
    [] exc = "TypeError" -> {"TypeError", "Exception"}
    [] OTHER -> {exc, "Exception"}

\* The except clauses of ask_medical_bot, in source order.
ExceptChain ==
  << "HTTPError", "ConnectionError", "Timeout", "RequestException",
     "json.JSONDecodeError", "Exception" >>

\* The first except clause that matches the exception; 0 when none does.
MatchingClause(exc) ==
  IF \E i \in 1..Len(ExceptChain) : ExceptChain[i] \in Bases(exc)
  THEN CHOOSE i \in 1..Len(ExceptChain) :
         /\ ExceptChain[i] \in Bases(exc)
         /\ \A j \in 1..(i - 1) : ExceptChain[j] \notin Bases(exc)
  ELSE 0

\* Exceptions requests.post can raise: timeouts while connecting and while
\* reading, transport failures, other request errors, and an error that is
\* not a requests exception (raised below requests, e.g. by urllib3).
PostExceptions ==
  {"ConnectTimeout", "ReadTimeout", "ConnectionError", "SSLError",
   "TooManyRedirects", "LocationParseError"}

\* The exception classes response.json() raises on an unparseable body:
\* requests >= 2.27 raises its own JSONDecodeError, older versions let the
\* json module's exception through.
JsonExceptions == {"requests.JSONDecodeError", "json.JSONDecodeError"}

GeneratedTextValues == {PyStr("X"), PyStr(""), PyNone}
AnswerValues == {PyStr("Y")}
ErrorValues == {PyStr("model loading")}
OtherValues == {PyInt(1)}

FieldValues(k) ==
  CASE k = "generated_text" -> GeneratedTextValues
    [] k = "answer" -> AnswerValues
    [] k = "error" -> ErrorValues
    [] OTHER -> OtherValues

FieldNames == {"generated_text", "answer", "error", "score"}

\* JSON objects over the field names, every subset of them present.
ResultObjects ==
  UNION { { PyDict(f) : f \in { g \in [K -> UNION {FieldValues(k) : k \in K}] :
                                  \A k \in K : g[k] \in FieldValues(k) } } :
          K \in SUBSET FieldNames }

\* First elements of a list body that are not objects.
NonObjects == {PyInt(5), PyNone, PyStr("abc"), PyStr("generated_text"), PyList(<<>>)}

JsonBodies ==
  ResultObjects
    \cup { PyList(<<o>>) : o \in ResultObjects }
    \cup { PyList(<<PyDict([answer |-> PyStr("Z")]), PyDict([answer |-> PyStr("Y")])>>) }
    \cup { PyList(<<o>>) : o \in NonObjects }
    \cup { PyList(<<>>), PyInt(5), PyStr("abc"), PyNone }

\* data before response.json() has returned a value.
NoData == PyNone

\* An outcome records the exception requests.post raised, or the response:
\* its status and reason, its text where the code reads it (error statuses
\* and unparseable bodies), and the value response.json() returns.

RaisedOutcome(exc) ==
  [kind |-> "raised", exc |-> exc, status |-> 0, reason |-> "", text |-> "",
   parses |-> FALSE, data |-> NoData]

ResponseOutcome(status, reason, text, parses, data) ==
  [kind |-> "response", exc |-> "", status |-> status, reason |-> reason,
   text |-> text, parses |-> parses, data |-> data]

Outcomes ==
  { RaisedOutcome(e) : e \in PostExceptions }
    \cup { ResponseOutcome(404, "Not Found", "Not Found", FALSE, NoData),
           ResponseOutcome(503, "Service Unavailable", "{\"error\": \"model loading\"}",
                           TRUE, PyDict([error |-> PyStr("model loading")])),
           ResponseOutcome(200, "OK", "<html>", FALSE, NoData),
           ResponseOutcome(204, "No Content", "", FALSE, NoData),
           ResponseOutcome(304, "Not Modified", "", FALSE, NoData) }
    \cup { ResponseOutcome(200, "OK", "", TRUE, d) : d \in JsonBodies }

NoOutcome == [kind |-> "none", exc |-> "", status |-> 0, reason |-> "", text |-> "",
              parses |-> FALSE, data |-> NoData]

----------------------------------------------------------------------------
\* ask_medical_bot (lines 18-103).

Returned(v, by) == [raised |-> FALSE, exc |-> "", value |-> v, handler |-> by]
Propagated(exc) == [raised |-> TRUE, exc |-> exc, value |-> PyNone, handler |-> "none"]
Thrown(exc, msg) == [threw |-> TRUE, exc |-> exc, msg |-> msg, value |-> PyNone, branch |-> "none"]
Value(v, branch) == [threw |-> FALSE, exc |-> "", msg |-> "", value |-> v, branch |-> branch]

\* key in x: defined for dict (key lookup), str (substring) and list
\* (membership); any other operand is a TypeError.
SupportsIn(x) == x.type \in {"dict", "str", "list"}

KeyIn(key, x) ==
  CASE x.type = "dict" -> key \in DOMAIN x.f
    [] x.type = "str" -> Contains(x.s, key)
    [] x.type = "list" -> \E i \in 1..Len(x.items) : x.items[i] = PyStr(key)
    [] OTHER -> FALSE

\* x[key] with a str key: the field of a dict, a TypeError on a str or list.
Subscript(x, key, branch) ==
  CASE x.type = "dict" -> Value(x.f[key], branch)
    [] x.type = "str" -> Thrown("TypeError", "string indices must be integers, not 'str'")
    [] OTHER -> Thrown("TypeError", "list indices must be integers or slices, not str")

\* Mutant: the answer field is looked up before generated_text.
Extract_AnswerFirst(data) ==
  IF data.type = "list" /\ Len(data.items) > 0 THEN
    LET first == data.items[1] IN
    IF ~SupportsIn(first)
      THEN Thrown("TypeError", "argument of type '" \o TypeName(first) \o "' is not iterable")
    ELSE IF KeyIn("answer", first) THEN Subscript(first, "answer", "answer")
    ELSE IF KeyIn("generated_text", first) THEN Subscript(first, "generated_text", "generated_text")
    ELSE Value(PyStr(FallbackMsg), "fallback")
  ELSE IF data.type = "dict" THEN
    IF KeyIn("answer", data) THEN Subscript(data, "answer", "answer")
    ELSE IF KeyIn("generated_text", data) THEN Subscript(data, "generated_text", "generated_text")
    ELSE IF KeyIn("error", data) THEN Value(PyStr(ServiceMsg(data.f["error"])), "error")
    ELSE Value(PyStr(FallbackMsg), "fallback")
  ELSE Value(PyStr(FallbackMsg), "fallback")

\* Lines 63-78: the reply extracted from the parsed body.
Extract(data) ==
  IF data.type = "list" /\ Len(data.items) > 0 THEN
    LET first == data.items[1] IN
    IF ~SupportsIn(first)
      THEN Thrown("TypeError", "argument of type '" \o TypeName(first) \o "' is not iterable")
    ELSE IF KeyIn("generated_text", first) THEN Subscript(first, "generated_text", "generated_text")
    ELSE IF KeyIn("answer", first) THEN Subscript(first, "answer", "answer")
    ELSE Value(PyStr(FallbackMsg), "fallback")
  ELSE IF data.type = "dict" THEN
    IF KeyIn("generated_text", data) THEN Subscript(data, "generated_text", "generated_text")
    ELSE IF KeyIn("answer", data) THEN Subscript(data, "answer", "answer")
    ELSE IF KeyIn("error", data) THEN Value(PyStr(ServiceMsg(data.f["error"])), "error")
    ELSE Value(PyStr(FallbackMsg), "fallback")
  ELSE Value(PyStr(FallbackMsg), "fallback")

\* response.raise_for_status() (line 52): HTTPError for 4xx and 5xx.
RaisesForStatus(status) == 400 <= status /\ status < 600

\* str(http_err), as raise_for_status builds it.
HttpErrorText(o) ==
  IntToStr(o.status)
    \o (IF o.status < 500 THEN " Client Error: " ELSE " Server Error: ")
    \o o.reason \o " for url: " \o API_URL

\* The try body (lines 51-78): the exception it raises, or the value it returns.
TryBody(o, jsonExc) ==
  IF o.kind = "raised" THEN Thrown(o.exc, o.exc)
  ELSE IF RaisesForStatus(o.status) THEN Thrown("HTTPError", HttpErrorText(o))
  ELSE IF ~o.parses THEN Thrown(jsonExc, "Expecting value: line 1 column 1 (char 0)")
  ELSE Extract(o.data)

\* response is bound once requests.post has returned.
ResponseBound(o) == o.kind = "response"

\* The except clauses (lines 80-103).  The HTTPError and JSONDecodeError
\* clauses read response.text, an UnboundLocalError when post itself raised.
Handle(o, t) ==
  LET c == MatchingClause(t.exc) IN
  CASE c = 0 -> Propagated(t.exc)
    [] c = 1 -> IF ResponseBound(o)
                THEN Returned(PyStr(HttpMsg(t.msg, o.text)), "HTTPError")
                ELSE Propagated("UnboundLocalError")
    [] c = 2 -> Returned(PyStr(ConnectionMsg), "ConnectionError")
    [] c = 3 -> Returned(PyStr(TimeoutMsg), "Timeout")
    [] c = 4 -> Returned(PyStr(RequestMsg), "RequestException")
    [] c = 5 -> IF ResponseBound(o)
                THEN Returned(PyStr(DecodeMsg), "JSONDecodeError")
                ELSE Propagated("UnboundLocalError")
    [] OTHER -> Returned(PyStr(InternalMsg(t.msg)), "Exception")

AskResult(o, jsonExc) ==
  LET t == TryBody(o, jsonExc) IN
  IF t.threw THEN Handle(o, t) ELSE Returned(t.value, t.branch)

----------------------------------------------------------------------------
\* The script (lines 11-15 and 105-140) as the session's state machine.

\* Questions typed into st.chat_input; the handler runs only for a truthy
\* (non-empty) input.
Questions == {"fever", "cough"}

SecretStores == {{}, {"HF_API_KEY"}}

Init ==
  /\ secrets \in SecretStores
  /\ requestsJsonExc \in JsonExceptions
  /\ pc = "start"
  /\ diagnostics = 0
  /\ history = <<>>
  /\ user_input = PyNone
  /\ prompt = ""
  /\ posts = 0
  /\ outcome = NoOutcome
  /\ handler = "none"
  /\ raised = FALSE
  /\ bot_response = PyNone
  /\ event = "none"

\* Mutant: the diagnostic is shown but st.stop() is missing.
CredentialCheck_NoStop ==
  /\ pc = "start"
  /\ pc' = "idle"
  /\ diagnostics' = IF "HF_API_KEY" \in secrets THEN diagnostics ELSE diagnostics + 1
  /\ UNCHANGED <<secrets, requestsJsonExc, history, user_input, prompt, posts,
                 outcome, handler, raised, bot_response, event>>

\* Lines 11-15: the credential check; st.error and st.stop when the key is missing.
CredentialCheck ==
  /\ pc = "start"
  /\ IF "HF_API_KEY" \in secrets
       THEN pc' = "idle" /\ diagnostics' = diagnostics
       ELSE pc' = "halted" /\ diagnostics' = diagnostics + 1
  /\ UNCHANGED <<secrets, requestsJsonExc, history, user_input, prompt, posts,
                 outcome, handler, raised, bot_response, event>>

\* Mutant: the user turn is not appended before the request.
SubmitQuestion_NoUserTurn(q) ==
  /\ pc = "idle"
  /\ posts < MaxPosts
  /\ user_input' = PyStr(q)
  /\ history' = history
  /\ prompt' = BuildPrompt(q, history')
  /\ posts' = posts + 1
  /\ outcome' = NoOutcome
  /\ handler' = "none"
  /\ raised' = FALSE
  /\ bot_response' = PyNone
  /\ event' = "question"
  /\ pc' = "posting"
  /\ UNCHANGED <<secrets, requestsJsonExc, diagnostics>>

\* Lines 122-130 up to the blocking POST of line 51: the user turn is appended,
\* the prompt is built from the question and the history, the POST is sent.
SubmitQuestion(q) ==
  /\ pc = "idle"
  /\ posts < MaxPosts
  /\ user_input' = PyStr(q)
  /\ history' = Append(history, <<"user", PyStr(q)>>)
  /\ prompt' = BuildPrompt(q, history')
  /\ posts' = posts + 1
  /\ outcome' = NoOutcome
  /\ handler' = "none"
  /\ raised' = FALSE
  /\ bot_response' = PyNone
  /\ event' = "question"
  /\ pc' = "posting"
  /\ UNCHANGED <<secrets, requestsJsonExc, diagnostics>>

\* Lines 51-103 and 131-134: the POST ends with outcome o, ask_medical_bot
\* classifies it, the assistant turn is appended.  An exception leaving
\* ask_medical_bot ends the script run before line 134.
Respond(o) ==
  /\ pc = "posting"
  /\ LET r == AskResult(o, requestsJsonExc) IN
       /\ outcome' = o
       /\ handler' = r.handler
       /\ raised' = r.raised
       /\ bot_response' = r.value
       /\ history' = IF r.raised THEN history
                     ELSE Append(history, <<"assistant", r.value>>)
  /\ pc' = "idle"
  /\ UNCHANGED <<secrets, requestsJsonExc, diagnostics, user_input, prompt, posts, event>>

\* Mutant: the rerun happens but the session's history is not reset.
ClearChat_KeepsHistory ==
  /\ pc = "idle"
  /\ history' = history
  /\ user_input' = PyNone
  /\ prompt' = ""
  /\ outcome' = NoOutcome
  /\ handler' = "none"
  /\ raised' = FALSE
  /\ bot_response' = PyNone
  /\ event' = "clear"
  /\ pc' = "idle"
  /\ UNCHANGED <<secrets, requestsJsonExc, diagnostics, posts>>

\* Lines 137-140: the clear button empties the history and reruns the script,
\* whose locals start afresh.
ClearChat ==
  /\ pc = "idle"
  /\ history' = <<>>
  /\ user_input' = PyNone
  /\ prompt' = ""
  /\ outcome' = NoOutcome
  /\ handler' = "none"
  /\ raised' = FALSE
  /\ bot_response' = PyNone
  /\ event' = "clear"
  /\ pc' = "idle"
  /\ UNCHANGED <<secrets, requestsJsonExc, diagnostics, posts>>

Next ==
  \/ CredentialCheck
  \/ \E q \in Questions : SubmitQuestion(q)
  \/ \E o \in Outcomes : Respond(o)
  \/ ClearChat

Spec == Init /\ [][Next]_vars

----------------------------------------------------------------------------
\* Vocabulary of the properties.

\* ask_medical_bot has been called and has ended for the question in user_input.
Answered == outcome.kind # "none"

\* The POST returned a 2xx response whose body parsed as JSON.
ParsedOk ==
  /\ outcome.kind = "response"
  /\ 200 <= outcome.status /\ outcome.status < 300
  /\ outcome.parses

\* The POST returned a 2xx response whose body is not JSON.
Unparseable ==
  /\ outcome.kind = "response"
  /\ 200 <= outcome.status /\ outcome.status < 300
  /\ ~outcome.parses

IsObject(v) == v.type = "dict"

\* The body is a result object, or a sequence that starts with one.
HasResultObject(d) ==
  IsObject(d) \/ (d.type = "list" /\ Len(d.items) > 0 /\ IsObject(d.items[1]))

ResultObject(d) == IF IsObject(d) THEN d ELSE d.items[1]

Has(obj, k) == k \in DOMAIN obj.f

ExpectedFields == {"generated_text", "answer", "error"}

\* The body carries none of the expected fields.
NoExpectedField(d) ==
  IF HasResultObject(d) THEN DOMAIN ResultObject(d).f \cap ExpectedFields = {}
  ELSE TRUE

IsNonEmptyString(v) == v.type = "str" /\ Len(v.s) > 0

SpeakerLabel(role) == IF role = "user" THEN "User" ELSE "Assistant"

\* The line the claim expects for turn i: "<Speaker>: <text>".
TurnLine(h, i) == SpeakerLabel(h[i][1]) \o ": " \o Format(h[i][2])

\* Where the line of turn i starts when the lines start at position start
\* and follow each other, one per line.
RECURSIVE LineStart(_, _, _)
LineStart(h, start, i) ==
  IF i = 1 THEN start ELSE LineStart(h, start, i - 1) + Len(TurnLine(h, i - 1)) + 1

\* piece occurs in s at position pos.
At(s, pos, piece) ==
  /\ pos >= 1
  /\ pos + Len(piece) - 1 <= Len(s)
  /\ SubSeq(s, pos, pos + Len(piece) - 1) = piece

----------------------------------------------------------------------------
\* C1: for every transcript, question and outcome of the POST,
\* ask_medical_bot does not raise to its caller and returns a non-empty string.
C1_ReturnsNonEmptyString ==
  Answered => (~raised /\ IsNonEmptyString(bot_response))

\* C2 as stated: the prompt is the preamble, then the rendered transcript
\* turns in order, then the current question, so the question occurs after
\* the last rendered turn.
C2_QuestionAfterTranscript ==
  pc = "posting" =>
    LET body == Join([i \in 1..Len(history) |-> TurnLine(history, i)])
        q == user_input.s
    IN /\ At(prompt, 1, PREAMBLE)
       /\ \E i \in (Len(PREAMBLE) + 1)..Len(prompt) :
            /\ At(prompt, i, body)
            /\ \E j \in (i + Len(body))..Len(prompt) : At(prompt, j, q)

\* C2 amended: the prompt is, in this order, the preamble, the current
\* question under its label, the chat-history header, one line per transcript
\* turn rendered "<Speaker>: <text>" in the transcript's order, and the closing
\* response label; the question precedes every rendered turn, and the prompt
\* is a function of (transcript, question).
C2_PromptOrder ==
  pc = "posting" =>
    LET q == user_input.s
        n == Len(history)
        qStart == Len(PREAMBLE) + Len(QuestionLabel) + 1
        hStart == qStart + Len(q) + Len(HistoryLabel)
        hEnd == IF n = 0 THEN hStart
                ELSE LineStart(history, hStart, n) + Len(TurnLine(history, n))
    IN /\ At(prompt, 1, PREAMBLE)
       /\ At(prompt, Len(PREAMBLE) + 1, QuestionLabel)
       /\ At(prompt, qStart, q)
       /\ At(prompt, qStart + Len(q), HistoryLabel)
       /\ \A i \in 1..n :
            /\ At(prompt, LineStart(history, hStart, i), TurnLine(history, i))
            /\ qStart + Len(q) <= LineStart(history, hStart, i)
            /\ i < n => At(prompt, LineStart(history, hStart, i) + Len(TurnLine(history, i)), "\n")
       /\ At(prompt, hEnd, ResponseLabel)
       /\ Len(prompt) = hEnd + Len(ResponseLabel) - 1

C2_Witness ==
  /\ pc = "posting"
  /\ Len(history) = 3
  /\ history[2][1] = "assistant"
  /\ history[1][2] # history[3][2]

\* C3: a 2xx result object with an error field and neither reply field, in
\* either response shape, gives the ServiceError message containing the
\* error field's message, and not the fallback string.
C3_ErrorFieldGivesServiceError ==
  (Answered /\ ParsedOk /\ HasResultObject(outcome.data)) =>
    LET obj == ResultObject(outcome.data) IN
    (Has(obj, "error") /\ ~Has(obj, "generated_text") /\ ~Has(obj, "answer")) =>
      /\ ~raised
      /\ bot_response = PyStr(ServiceMsg(obj.f["error"]))
      /\ Contains(bot_response.s, Format(obj.f["error"]))
      /\ bot_response # PyStr(FallbackMsg)

\* C4: when the POST times out, while connecting or while reading,
\* ask_medical_bot returns the Timeout message and does not raise.
C4_TimeoutGivesTimeoutMessage ==
  (Answered /\ outcome.kind = "raised" /\ "Timeout" \in Bases(outcome.exc)) =>
    (~raised /\ bot_response = PyStr(TimeoutMsg) /\ handler = "Timeout")

\* C5: a 2xx response whose body cannot be parsed as JSON gives the
\* DecodeError message, from the JSONDecodeError clause; no earlier clause
\* captures the exception response.json() raises.
C5_UnparseableGivesDecodeError ==
  (Answered /\ Unparseable) =>
    (~raised /\ bot_response = PyStr(DecodeMsg) /\ handler = "JSONDecodeError")

\* C6: for a 2xx response in either shape, the reply is the result object's
\* generated_text when present, otherwise its answer when present;
\* generated_text wins over answer and both win over error.
C6_ReplyFieldPriority ==
  (Answered /\ ParsedOk /\ HasResultObject(outcome.data)) =>
    LET obj == ResultObject(outcome.data) IN
    /\ Has(obj, "generated_text") => (~raised /\ bot_response = obj.f["generated_text"])
    /\ (~Has(obj, "generated_text") /\ Has(obj, "answer")) =>
         (~raised /\ bot_response = obj.f["answer"])
    /\ outcome.data = PyDict([generated_text |-> PyStr("X")]) => bot_response = PyStr("X")
    /\ outcome.data = PyList(<<PyDict([answer |-> PyStr("Y")])>>) => bot_response = PyStr("Y")

C6_Witness ==
  /\ Answered /\ ParsedOk
  /\ outcome.data.type = "list"
  /\ HasResultObject(outcome.data)
  /\ DOMAIN ResultObject(outcome.data).f = {"answer", "error", "score"}
  /\ bot_response = PyStr("Y")

\* C7: a 2xx JSON body with none of the expected fields (an object without
\* them, an empty list, a list whose first element is such an object or is not
\* an object, a bare scalar) gives the fixed fallback string.
C7_NoExpectedFieldGivesFallback ==
  (Answered /\ ParsedOk /\ NoExpectedField(outcome.data)) =>
    (~raised /\ bot_response = PyStr(FallbackMsg))

\* C8: every step extends the transcript at its end or resets it to empty,
\* and every assistant turn is immediately preceded by the user turn that
\* prompted it, whatever the outcome of the request.
C8_TranscriptShape ==
  /\ [](\A i \in 1..Len(history) :
          history[i][1] = "assistant" => (i > 1 /\ history[i - 1][1] = "user"))
  /\ [][ /\ \/ history' = <<>>
            \/ /\ Len(history') >= Len(history)
               /\ SubSeq(history', 1, Len(history)) = history
         /\ (Len(history') > Len(history) /\ history'[Len(history')][1] = "assistant") =>
              /\ Len(history') = Len(history) + 1
              /\ Len(history) >= 1
              /\ history[Len(history)] = <<"user", user_input>>
       ]_vars

C8_Witness ==
  /\ Len(history) = 4
  /\ history[4][1] = "assistant"
  /\ handler = "ConnectionError"
  /\ history[2][2] = PyStr(FallbackMsg)

\* C9: the clear action leaves the empty transcript, from any transcript; the
\* first turn appended after it gives a transcript of length exactly 1, and the
\* prompt built then renders that one turn only.
C9_ClearThenAppend ==
  [][ /\ (pc = "idle" /\ pc' = "idle" /\ event' = "clear") => history' = <<>>
      /\ (event = "clear" /\ history' # history) =>
           /\ Len(history') = 1
           /\ history' = << <<"user", user_input'>> >>
           /\ prompt' = PREAMBLE \o QuestionLabel \o user_input'.s \o HistoryLabel
                          \o "User: " \o user_input'.s \o ResponseLabel
    ]_vars

C9_Witness ==
  /\ pc = "posting"
  /\ posts = 2
  /\ Len(history) = 1

\* C10: with the API token secret absent, the credential check emits one
\* diagnostic and halts the script: no question is accepted, ask_medical_bot
\* is not called and no POST is sent.
C10_MissingSecretHalts ==
  "HF_API_KEY" \notin secrets =>
    /\ pc \in {"start", "halted"}
    /\ (pc = "start") => diagnostics = 0
    /\ (pc = "halted") => diagnostics = 1
    /\ posts = 0
    /\ history = <<>>
    /\ user_input = PyNone
    /\ event = "none"
    /\ ~Answered

C10_Witness ==
  /\ "HF_API_KEY" \notin secrets
  /\ pc = "halted"
  /\ diagnostics = 1

====
